---- MODULE Spec2Model ----
(***************************************************************************)
(* Model of the audio service as its source is written: the bearer token   *)
(* functions (create_access_token / verify_token), the reconciliation of   *)
(* a Yandex account with the users table (AuthService.authenticate_user),  *)
(* the two authentication routes, the bearer guard (get_current_user), the *)
(* /users and /audio routes and the AudioService functions.                *)
(*                                                                         *)
(* State: the two tables (users, audio_files), the storage directory, the  *)
(* clock, the authentication calls in progress (between their SELECT,      *)
(* their commit and their refresh), the last request to a guarded route or *)
(* to an AudioService function with its outcome, and the last call of each *)
(* token function with its outcome.                                        *)
(*                                                                         *)
(* Every function is followed to the statement where it ends as written.   *)
(* The settings object declares app, database, auth and yandex only        *)
(* (core/config.py 74-78, extra names ignored), so a read of any other     *)
(* name raises AttributeError; where that read comes first the function    *)
(* ends there, and the statements after it that can never run are not      *)
(* part of the model.  A request to a route goes through the application   *)
(* of main.py: an exception that is not an HTTPException and that nothing  *)
(* catches ends the request with 500 Internal Server Error, and so does an *)
(* HTTPException, whose handler (main.py 98-101) returns a dict that       *)
(* cannot be sent.  A call of a service function gets what the function    *)
(* returns or raises.                                                      *)
(***************************************************************************)
EXTENDS Integers, Sequences, FiniteSets, TLC

VARIABLES users, nextUser, audio, disk, now, areq, dreq, last, lastIssue, ver

vars ==
    <<users, nextUser, audio, disk, now, areq, dreq, last, lastIssue, ver>>

(***************************************************************************)
(* Bounds of the model.                                                    *)
(***************************************************************************)
\* MaxUsers: the user ids that requests name.  The users table holds at
\* most one row for each subject id of Subjects.
MaxUsers == 2
MaxFiles == 2
MaxNow == 32

(***************************************************************************)
(* Program constants.                                                      *)
(***************************************************************************)
access_token_expire_minutes == 30
ProviderTokenDays == 30
max_file_size == 10000000

\* The value of SECRET_KEY and of ALGORITHM in the environment (core/config.py
\* 37-38): the key and the algorithm a bearer token of this service would
\* be signed with.
secret_key == "secret"
algorithm == "HS256"

(***************************************************************************)
(* The clock counts minutes.  Time moves to a later sample instant; the    *)
(* fine samples sit around the expiry of a token issued at 0 or 1.         *)
(***************************************************************************)
FineInstants ==
    {t \in 0..MaxNow : t <= 1 \/ t >= access_token_expire_minutes}
CoarseInstants ==
    {t \in 0..MaxNow : t = 0 \/ t = access_token_expire_minutes + 1}

(***************************************************************************)
(* How a call ends when it does not return: with an HTTPException, or with *)
(* another exception that the function lets through.                       *)
(***************************************************************************)
HTTPError(code, detail) ==
    [detail |-> detail, ok |-> FALSE, exc |-> "HTTPException", status |-> code]

Raised(exc) ==
    [detail |-> "Internal Server Error", ok |-> FALSE, exc |-> exc,
     status |-> 500]

\* A request without a required parameter: FastAPI answers 422 with its
\* handler of RequestValidationError and does not call the route function.
Unprocessable ==
    [detail |-> "Field required", ok |-> FALSE,
     exc |-> "RequestValidationError", status |-> 422]

(***************************************************************************)
(* The application (main.py).                                              *)
(***************************************************************************)
\* custom_http_exception_handler, registered for HTTPException: it logs
\* the detail and returns a dict.
custom_http_exception_handler(exc) ==
    [detail |-> exc.detail, status_code |-> exc.status]

\* The exception middleware awaits response(scope, receive, send) on what
\* the handler returned.  A dict is not callable: TypeError, which nothing
\* catches, and the client receives 500 Internal Server Error.
SendResponse(response) ==
    IF "status_code" \in DOMAIN response
    THEN Raised("TypeError")
    ELSE response

\* What the client receives for a request whose dependency or route
\* function ended as outcome.  An HTTPException goes to the handler of main.py;
\* the validation error and the exceptions that are not HTTPException are
\* answered as they are (422, 500).
Application(outcome) ==
    IF ~outcome.ok /\ outcome.exc = "HTTPException"
    THEN SendResponse(custom_http_exception_handler(outcome))
    ELSE outcome

(***************************************************************************)
(* Bearer tokens.  A token is its claims, the key it was signed with and   *)
(* the algorithm of its header.                                            *)
(***************************************************************************)
\* str(user.id)
IdStr(id) == IF id = 1 THEN "1" ELSE IF id = 2 THEN "2" ELSE "3"

NoToken == [claims |-> [sub |-> "", exp |-> 0], key |-> "absent", alg |-> "absent"]

\* AuthService.create_access_token.  Line 140 reads
\* settings.ACCESS_TOKEN_EXPIRE_MINUTES before anything is encoded; Settings
\* has no such name (the minutes are settings.auth.access_token_expire_minutes),
\* so the read raises AttributeError, which is neither JWTError nor
\* ValidationError and passes the except clause of line 147.
create_access_token(data, t) == Raised("AttributeError")

\* AuthService.verify_token.  The arguments of jwt.decode are evaluated
\* first: settings.SECRET_KEY (line 159) is not a name of Settings, so the
\* call raises AttributeError for every token; jwt.decode is not entered
\* and none of the except clauses of lines 165-179 applies.
verify_token(token, t) == Raised("AttributeError")


(***************************************************************************)
(* The users table (models/user.py).  A row is keyed by its id; email and  *)
(* yandex_id are unique.                                                   *)
(***************************************************************************)
Subjects == {"42", "77"}
Emails == {"a@b.com", "c@d.org"}
YTokens == {"y1", "y2"}

\* The argument the two routes hand to authenticate_user in place of the
\* provider token: a dict with the keys yandex_id, email and access_token
\* (routes/auth.py 86-90 and 198-202).
RouteArg == "{yandex_id, email, access_token}"

EmptyRow ==
    [email |-> "", name |-> "", yandex_id |-> "", is_active |-> FALSE,
     is_superuser |-> FALSE, access_token |-> "", refresh_token |-> "",
     token_expires |-> 0]

\* faulty variant: the columns are not declared unique
UniqueOK_off(tbl) == TRUE

\* unique=True on email and on yandex_id, as the engine checks them at commit
UniqueOK(tbl) ==
    \A i, j \in DOMAIN tbl :
        i # j => /\ tbl[i].yandex_id # tbl[j].yandex_id
                 /\ tbl[i].email # tbl[j].email

\* yandex_data['default_email'].split('@')[0]
LocalPart(e) ==
    IF e = "a@b.com" THEN "a" ELSE IF e = "c@d.org" THEN "c" ELSE e

\* int((datetime.now() + timedelta(days=30)).timestamp()), in seconds
TokenExpires(t) == (t + ProviderTokenDays * 24 * 60) * 60

\* authenticate_user, lines 66-70: both keys are in the provider's answers
ProfileComplete(profile) ==
    profile.user_id # "" /\ profile.default_email # ""

\* authenticate_user, lines 73-81
UserData(profile, yandex_token, t) ==
    [email |-> profile.default_email,
     name |-> IF profile.real_name # "" THEN profile.real_name
              ELSE IF profile.display_name # "" THEN profile.display_name
              ELSE LocalPart(profile.default_email),
     yandex_id |-> profile.user_id,
     access_token |-> yandex_token,
     token_expires |-> TokenExpires(t)]

\* _get_or_create_user, lines 105-111: the rows the SELECT matches
MatchIds(tbl, data) ==
    {i \in DOMAIN tbl :
        tbl[i].yandex_id = data.yandex_id \/ tbl[i].email = data.email}

\* faulty variant: the stored provider token and its expiry are left as they were
UpdatedRow_stale(cur, loaded, data) ==
    [cur EXCEPT
        !.yandex_id = IF loaded.yandex_id # data.yandex_id
                      THEN data.yandex_id ELSE @,
        !.name = IF loaded.name # data.name THEN data.name ELSE @]

\* _get_or_create_user, lines 113-120, as the unit of work flushes it: a
\* column is written when its new value differs from the value loaded by
\* the SELECT; the others keep what the table holds at commit.
UpdatedRow(cur, loaded, data) ==
    [cur EXCEPT
        !.access_token = IF loaded.access_token # data.access_token
                         THEN data.access_token ELSE @,
        !.token_expires = IF loaded.token_expires # data.token_expires
                          THEN data.token_expires ELSE @,
        !.yandex_id = IF loaded.yandex_id # data.yandex_id
                      THEN data.yandex_id ELSE @,
        !.name = IF loaded.name # data.name THEN data.name ELSE @]

\* _get_or_create_user, lines 123-128
NewUser(data) ==
    [email |-> data.email, name |-> data.name, yandex_id |-> data.yandex_id,
     is_active |-> TRUE, is_superuser |-> FALSE,
     access_token |-> data.access_token, refresh_token |-> "",
     token_expires |-> data.token_expires]

(***************************************************************************)
(* Authentication calls.  A call is made to AuthService.authenticate_user  *)
(* with a provider token (via "service"), or it is a request to            *)
(* POST /auth/yandex (via "token") or to GET /auth/yandex/callback (via    *)
(* "callback").  A call is idle, or it has the provider's answers and its  *)
(* user_data and waits for its SELECT, or it has run its SELECT and waits  *)
(* to flush and commit, or it has committed and waits to refresh its row,  *)
(* or it has ended.  raised is the exception authenticate_user raised,     *)
(* resp what the caller received: the outcome of authenticate_user for a   *)
(* call of it, the answer of the application for a request to a route.     *)
(* Two fields record the history of a call: fresh, that no row held its    *)
(* subject id when its SELECT ran, and overlap, the calls that were        *)
(* between their SELECT and their commit at some moment when this one was. *)
(***************************************************************************)
Requests == {"r1", "r2"}

NoData ==
    [email |-> "", name |-> "", yandex_id |-> "", access_token |-> "",
     token_expires |-> 0]

\* How a call ended: with the user authenticate_user returned (ok), or with
\* an exception.
NoResp ==
    [detail |-> "", ok |-> FALSE, exc |-> "", status |-> 0, user_id |-> 0]

Failure(err) ==
    [detail |-> err.detail, ok |-> FALSE, exc |-> err.exc,
     status |-> err.status, user_id |-> 0]

Returned(uid) ==
    [detail |-> "", ok |-> TRUE, exc |-> "", status |-> 0, user_id |-> uid]

\* What the provider answers for a token: the subject under "id" (read by
\* the routes) and "user_id" (read by authenticate_user), the email, the
\* names.  "" stands for a key that the answer does not have.
Profile(id, uid, email, real) ==
    [id |-> id, user_id |-> uid, default_email |-> email, real_name |-> real,
     display_name |-> ""]

\* A call with what the provider answers to it.  body, ytoken: the body of
\* POST /auth/yandex and its access_token, or the argument of a call to
\* authenticate_user; has_code, code, error: the query of the callback,
\* whether it has the parameter code, the value of code and the value of
\* error ("" also when the query has no error); provider: how the provider
\* answers the route's own profile request; sprovider: how it answers the
\* two requests of AuthService.get_yandex_user_info; errtext: the
\* provider's error text.
NoAsk ==
    [code |-> "", profile |-> Profile("", "", "", ""), via |-> "",
     body |-> "", ytoken |-> "", has_code |-> FALSE, error |-> "",
     provider |-> "", sprovider |-> "", errtext |-> ""]

ServiceQ(ytoken, sprovider, profile) ==
    [NoAsk EXCEPT !.via = "service", !.ytoken = ytoken,
                  !.sprovider = sprovider, !.profile = profile,
                  !.errtext = IF sprovider = "http_error"
                              THEN "invalid_token" ELSE ""]

TokenQ(body, ytoken, provider, sprovider, profile) ==
    [NoAsk EXCEPT !.via = "token", !.body = body, !.ytoken = ytoken,
                  !.provider = provider, !.sprovider = sprovider,
                  !.profile = profile,
                  !.errtext = IF "http_error" \in {provider, sprovider}
                              THEN "invalid_token" ELSE ""]

CallbackQ(has_code, code, error, profile) ==
    [NoAsk EXCEPT !.via = "callback", !.has_code = has_code, !.code = code,
                  !.error = error, !.provider = "ok", !.sprovider = "ok",
                  !.profile = profile]

IdleReq ==
    [data |-> NoData, loaded |-> 0, uid |-> 0, pc |-> "idle",
     row |-> EmptyRow, resp |-> NoResp, raised |-> NoResp, fresh |-> FALSE,
     overlap |-> {}, asked |-> NoAsk]

\* A call that has built its user_data (lines 73-81) and waits for the
\* SELECT of _get_or_create_user.
BegunReq(q, data) ==
    [IdleReq EXCEPT !.pc = "begun", !.data = data, !.asked = q]

\* A call between its SELECT and its commit, with the row as loaded
\* (0: none).
SelectedReq(a, loaded, row, fresh, overlap) ==
    [a EXCEPT !.pc = "selected", !.loaded = loaded, !.row = row,
              !.fresh = fresh, !.overlap = overlap]

\* A call that has committed and has its row to refresh.
CommittedReq(a, uid) == [a EXCEPT !.pc = "committed", !.uid = uid]

\* A call that has ended: what it asked for, the id of the row its SELECT
\* returned, what authenticate_user raised and what the caller received.
DoneReq(a, raised, resp) ==
    [a EXCEPT !.pc = "done", !.raised = raised, !.resp = resp,
              !.row = EmptyRow]

\* The calls between their SELECT and their commit when call r runs its
\* SELECT.
InFlight(r) == {o \in Requests \ {r} : areq[o].pc = "selected"}

\* The calls as call r begins anew, with record rec: the calls that
\* overlapped with the earlier call of r do not overlap with this one.
Began(r, rec) ==
    [o \in Requests |->
        IF o = r THEN rec ELSE [areq[o] EXCEPT !.overlap = @ \ {r}]]

\* The calls as call r, with record rec, runs its SELECT: those in flight
\* overlap with it.
Started(r, rec) ==
    [o \in Requests |->
        IF o = r THEN rec
        ELSE IF o \in InFlight(r)
        THEN [areq[o] EXCEPT !.overlap = @ \cup {r}]
        ELSE areq[o]]

\* routes/auth.py get_yandex_user_info, the profile request of the routes:
\* a status other than 200 is answered 401 with the provider's text, a
\* failed request 503.
RouteProfileCheck(q) ==
    IF q.provider = "http_error"
    THEN Failure(HTTPError(401, q.errtext))
    ELSE IF q.provider = "unreachable"
    THEN Failure(HTTPError(503, "Yandex service unavailable"))
    ELSE NoResp

\* auth_via_yandex_token up to its call of authenticate_user, lines 63-84.
\* NoResp: the request goes on.
TokenRouteCheck(q) ==
    IF q.body = "invalid"
    THEN Failure(HTTPError(400, "Invalid request format"))
    ELSE IF q.ytoken = ""
    THEN Failure(HTTPError(400, "Yandex access token is required"))
    ELSE IF RouteProfileCheck(q) # NoResp
    THEN RouteProfileCheck(q)
    ELSE IF q.profile.id = ""
    THEN Failure(HTTPError(401, "Invalid user data from Yandex"))
    ELSE NoResp

\* yandex_callback, lines 131-154.  The parameter code is required (line
\* 132): a request without it is answered 422 and the function is not
\* called; an empty code passes.  After the checks of error and code the
\* debug message of line 153 reads settings.yandex.YANDEX_CLIENT_ID; the
\* field of YandexOAuthSettings is client_id (core/config.py 48-54), so the
\* read raises AttributeError inside the try block and the handler of
\* lines 218-223 raises 500.  No request to the provider is made.
CallbackResponse(q) ==
    IF ~q.has_code
    THEN Failure(Unprocessable)
    ELSE IF q.error # ""
    THEN Failure(HTTPError(400, "Yandex OAuth error: " \o q.error))
    ELSE IF q.code = ""
    THEN Failure(HTTPError(400, "Authorization code is required"))
    ELSE Failure(HTTPError(500,
                    "Internal server error during OAuth processing"))

\* AuthService.get_yandex_user_info and lines 63-70 of authenticate_user:
\* a refusal of the provider is answered 401 with its text, a failed
\* request 503, an answer without user_id or default_email 400.
ServiceCheck(q) ==
    IF q.sprovider = "http_error"
    THEN Failure(HTTPError(401, "Yandex API error: " \o q.errtext))
    ELSE IF q.sprovider = "unreachable"
    THEN Failure(HTTPError(503, "Yandex OAuth service unavailable"))
    ELSE IF ~ProfileComplete(q.profile)
    THEN Failure(HTTPError(400, "Incomplete Yandex user data"))
    ELSE NoResp

\* How the route function ends before it calls authenticate_user.
\* NoResp: authenticate_user is called.
RouteCheck(q) ==
    IF q.via = "callback" THEN CallbackResponse(q)
    ELSE IF q.via = "token" THEN TokenRouteCheck(q)
    ELSE NoResp

\* What a call goes through before the SELECT of _get_or_create_user: the
\* exception that ends it, or NoResp.
AuthPrecheck(q) ==
    IF RouteCheck(q) # NoResp THEN RouteCheck(q) ELSE ServiceCheck(q)

\* The value authenticate_user receives as yandex_token.
ServiceArg(q) == IF q.via = "service" THEN q.ytoken ELSE RouteArg

\* What a route makes of the outcome of authenticate_user: an
\* HTTPException is raised again (routes/auth.py 103-104, 214-216); with
\* the user returned the route calls create_access_token, whose exception
\* the last except clause turns into 500 (lines 105-110).
RouteOutcome(outcome) ==
    IF outcome.ok /\ ~create_access_token([sub |-> IdStr(outcome.user_id)], now).ok
    THEN Failure(HTTPError(500, "Authentication failed"))
    ELSE outcome

\* What the caller receives when the call ends as outcome: the caller of
\* authenticate_user its outcome, the client of a route the answer of the
\* application.
Caller(q, outcome) ==
    IF q.via = "service" THEN outcome
    ELSE Failure(Application(RouteOutcome(outcome)))

\* A call that ends before it reaches its SELECT: in the route (nothing
\* raised by authenticate_user) or in authenticate_user.
Refused(q, outcome) ==
    DoneReq(BegunReq(q, NoData),
            IF RouteCheck(q) # NoResp THEN NoResp ELSE outcome,
            Caller(q, outcome))

\* faulty variant: the integrity error is not told apart from other failures
AuthConflict_generic ==
    Failure(HTTPError(500, "Authentication failed: IntegrityError"))

\* IntegrityError in authenticate_user, lines 87-92
AuthConflict ==
    Failure(HTTPError(409, "User already exists with different credentials"))

\* any other exception in authenticate_user, lines 96-101: the detail is
\* "Authentication failed: " followed by str(exc), for which the model
\* writes the class of the exception
AuthFailed(exc) == Failure(HTTPError(500, "Authentication failed: " \o exc))

\* The columns the flush of an update writes are those whose new value
\* differs from the loaded one.
Dirty(a) == UpdatedRow(a.row, a.row, a.data) # a.row

\* The flush and the commit of _get_or_create_user (line 131) for a call
\* that has run its SELECT: the table, the id counter, and either the id of
\* the committed row or the exception authenticate_user raises after its
\* rollback, which leaves the table as it is.  The dict of the routes
\* cannot be bound to the access_token column, which every INSERT and,
\* the column holding a string, every UPDATE writes: the statement fails
\* in the driver (DBAPIError, not IntegrityError).  An UPDATE of a row that
\* is gone matches no row (StaleDataError).
CommitResult(a) ==
    LET uid == IF a.loaded = 0 THEN nextUser + 1 ELSE a.loaded
        tbl == IF a.loaded = 0
               THEN [i \in DOMAIN users \cup {uid} |->
                       IF i = uid THEN NewUser(a.data) ELSE users[i]]
               ELSE IF a.loaded \in DOMAIN users
               THEN [users EXCEPT ![uid] = UpdatedRow(@, a.row, a.data)]
               ELSE users
    IN IF a.data.access_token = RouteArg
       THEN [users |-> users, nextUser |-> nextUser, uid |-> 0,
             resp |-> AuthFailed("DBAPIError")]
       ELSE IF a.loaded # 0 /\ a.loaded \notin DOMAIN users /\ Dirty(a)
       THEN [users |-> users, nextUser |-> nextUser, uid |-> 0,
             resp |-> AuthFailed("StaleDataError")]
       ELSE IF ~UniqueOK(tbl)
       THEN [users |-> users, nextUser |-> nextUser, uid |-> 0,
             resp |-> AuthConflict]
       ELSE [users |-> tbl,
             nextUser |-> IF a.loaded = 0 THEN uid ELSE nextUser,
             uid |-> uid, resp |-> NoResp]

\* The route's checks, the provider requests of authenticate_user, its
\* check of the answers, and user_data with the clock read of line 80.
\* The call then awaits its SELECT.
AuthBegin(r, q) ==
    /\ areq[r].pc \in {"idle", "done"}
    /\ LET pre == AuthPrecheck(q)
           data == UserData(q.profile, ServiceArg(q), now)
       IN areq' = Began(r, IF pre # NoResp
                           THEN Refused(q, pre)
                           ELSE BegunReq(q, data))
    /\ UNCHANGED <<users, nextUser, audio, disk, now, last, lastIssue, ver, dreq>>

\* The SELECT of _get_or_create_user (lines 105-111), on the table as it
\* is when the statement runs; first() takes any of the rows it matches.
AuthSelect(r) ==
    /\ areq[r].pc = "begun"
    /\ LET a == areq[r]
           found == MatchIds(users, a.data)
           fresh == \A i \in DOMAIN users :
                       users[i].yandex_id # a.data.yandex_id
       IN IF found = {}
          THEN areq' = Started(r, SelectedReq(a, 0, EmptyRow, fresh,
                                              InFlight(r)))
          ELSE \E i \in found :
                  areq' = Started(r, SelectedReq(a, i, users[i], fresh,
                                                 InFlight(r)))
    /\ UNCHANGED <<users, nextUser, audio, disk, now, last, lastIssue, ver, dreq>>

\* session.commit() of a call that has run its SELECT.
AuthCommit(r) ==
    /\ areq[r].pc = "selected"
    /\ LET a == areq[r]
           c == CommitResult(a)
       IN /\ users' = c.users
          /\ nextUser' = c.nextUser
          /\ areq' = [areq EXCEPT ![r] =
                        IF c.resp # NoResp
                        THEN DoneReq(a, c.resp, Caller(a.asked, c.resp))
                        ELSE CommittedReq(a, c.uid)]
    /\ UNCHANGED <<audio, disk, now, last, lastIssue, ver, dreq>>

\* How the database answers the SELECT of session.refresh: with the row,
\* or with an error (the connection is lost).
RefreshOutcomes == {"ok", "error"}

\* session.refresh(user) of a call that has committed (line 132), a SELECT
\* of its row by id, and the return of the user.  When the statement fails
\* the refresh raises OperationalError, when the row is gone
\* InvalidRequestError; authenticate_user answers either as any other
\* exception (lines 96-101), and its rollback has nothing to undo, the
\* write being committed.  Only calls with a provider token come this far:
\* a request to a route has ended before its SELECT or at its commit.
AuthRefresh(r, outcomes) ==
    /\ areq[r].pc = "committed"
    /\ \E answer \in outcomes :
          LET a == areq[r]
              outcome == IF answer = "error"
                         THEN AuthFailed("OperationalError")
                         ELSE IF a.uid \notin DOMAIN users
                         THEN AuthFailed("InvalidRequestError")
                         ELSE Returned(a.uid)
          IN areq' = [areq EXCEPT ![r] =
                        DoneReq(a, IF outcome.ok THEN NoResp ELSE outcome,
                                Caller(a.asked, outcome))]
    /\ UNCHANGED <<users, nextUser, audio, disk, now, last, lastIssue, ver, dreq>>

AdvanceClock(instants) ==
    /\ \E t \in instants : t > now /\ now' = t
    /\ UNCHANGED <<users, nextUser, audio, disk, areq, last, lastIssue, ver, dreq>>


(***************************************************************************)
(* The bearer guard (routes/users.py).                                     *)
(***************************************************************************)
\* The Authorization headers a client can send: none, and bearer tokens of
\* every make, those signed with the key of the service among them.
BearerTokens ==
    {NoToken} \cup
    {[claims |-> [sub |-> s, exp |-> e], key |-> k, alg |-> algorithm] :
        s \in {"1", "2"}, e \in {0, access_token_expire_minutes},
        k \in {secret_key, "forged"}}

\* get_current_user.  Without a bearer token the OAuth2PasswordBearer
\* dependency of line 13 raises 401.  With one, line 22 calls
\* AuthService.verify_token(token), which raises for every token; the
\* exception is not an HTTPException and leaves the dependency as it is,
\* so the lines after 22 never run and no user is ever resolved.
get_current_user(token, t) ==
    IF token = NoToken
    THEN HTTPError(401, "Not authenticated")
    ELSE verify_token(token, t)

\* get_current_superuser depends on get_current_user (line 39) and runs
\* when that one has returned a user, which it never does.
get_current_superuser(token, t) == get_current_user(token, t)

(***************************************************************************)
(* Requests to the guarded routes and calls of the AudioService functions. *)
(* last is the last of them: what was asked and how it ended.              *)
(***************************************************************************)
NoUpload == [content_type |-> "", size |-> 0, filename |-> ""]

NoUpdate == [email |-> "", is_active |-> "unset", is_superuser |-> "unset"]

Last(op, token, user_id, target, upload, update, out) ==
    [token |-> token, user_id |-> user_id, op |-> op, target |-> target,
     upload |-> upload, update |-> update, out |-> out]

Return(v) == [ok |-> TRUE, value |-> v]

NoLast == Last("", NoToken, 0, 0, NoUpload, NoUpdate, HTTPError(0, ""))

\* A request to a guarded route: FastAPI resolves the dependencies before
\* it calls the handler, get_current_user ends with an exception for every
\* request, and the handler is not called.  Nothing is read or written;
\* the client receives what the application makes of the exception.
Guarded(op, guard, token, target, upload, update) ==
    /\ last' = Last(op, token, 0, target, upload, update, Application(guard))
    /\ UNCHANGED <<users, nextUser, audio, disk, now, areq, lastIssue, ver, dreq>>

\* GET /users/me
ReadUserMe(token) ==
    Guarded("read_user_me", get_current_user(token, now), token, 0, NoUpload,
            NoUpdate)

\* PUT /users/me with a body of schemas/user.py UserUpdate
UpdateUserMe(token, upd) ==
    Guarded("update_user_me", get_current_user(token, now), token, 0,
            NoUpload, upd)

\* GET /users/
ReadUsers(token) ==
    Guarded("read_users", get_current_superuser(token, now), token, 0,
            NoUpload, NoUpdate)

\* DELETE /users/{user_id}
DeleteUser(token, uid) ==
    Guarded("delete_user", get_current_superuser(token, now), token, uid,
            NoUpload, NoUpdate)

(***************************************************************************)
(* Audio files.  A row of audio_files (models/audio.py) has its owner, its *)
(* names and its path; the storage directory is the set of paths that      *)
(* exist on disk.                                                          *)
(***************************************************************************)
allowed_types == {"audio/mpeg", "audio/wav"}
ContentTypes == {"audio/mpeg", "text/plain"}
Sizes == {max_file_size, max_file_size + 1}
Filenames == {"a.mp3"}

Uploads == [content_type : ContentTypes, size : Sizes, filename : Filenames]

Files == 1..MaxFiles

\* The path stored in the row of file k.
FilePath(k) == [name |-> k, dir |-> "static/audio_files"]

AudioRow(user_id, k) ==
    [user_id |-> user_id, original_filename |-> "a.mp3",
     file_path |-> FilePath(k)]

\* POST /audio/upload
UploadAudioFile(token, up) ==
    Guarded("upload_audio_file", get_current_user(token, now), token, 0, up,
            NoUpdate)

\* GET /audio/my
GetMyAudioFiles(token) ==
    Guarded("get_my_audio_files", get_current_user(token, now), token, 0,
            NoUpload, NoUpdate)

\* GET /audio/download/{file_id}
DownloadAudioFile(token, file_id) ==
    Guarded("download_audio_file", get_current_user(token, now), token,
            file_id, NoUpload, NoUpdate)

\* DELETE /audio/{file_id}
DeleteAudioFile(token, file_id) ==
    Guarded("delete_audio_file", get_current_user(token, now), token,
            file_id, NoUpload, NoUpdate)

\* AudioService.save_audio_file.  Line 25 reads settings.AUDIO_UPLOAD_DIR,
\* which Settings does not have: AttributeError before the directory is
\* made or a byte is written; the finally clause closes the upload.
save_audio_file(user_id, up) == Raised("AttributeError")

\* AudioFileInDB.from_orm of a row: the schema requires file_size,
\* content_type and created_at (schemas/audio.py 6-19), which an AudioFile
\* (models/audio.py 10-14) does not have.
from_orm(row) == Raised("ValidationError")

\* AudioService.get_user_audio_files: the list of from_orm(f) for the rows
\* of the user; the first row raises.
get_user_audio_files(user_id) ==
    IF \E f \in DOMAIN audio : audio[f].user_id = user_id
    THEN Raised("ValidationError")
    ELSE Return({})

\* AudioService.get_audio_file: None (written 0) when no row has the id and
\* the owner, from_orm of the row otherwise.
get_audio_file(file_id, user_id) ==
    IF file_id \in DOMAIN audio /\ audio[file_id].user_id = user_id
    THEN from_orm(audio[file_id])
    ELSE Return(0)

SaveAudioFile(user_id, up) ==
    /\ last' = Last("AudioService.save_audio_file", NoToken, user_id, 0, up,
                    NoUpdate, save_audio_file(user_id, up))
    /\ UNCHANGED <<users, nextUser, audio, disk, now, areq, lastIssue, ver, dreq>>

GetUserAudioFiles(user_id) ==
    /\ last' = Last("AudioService.get_user_audio_files", NoToken, user_id, 0,
                    NoUpload, NoUpdate, get_user_audio_files(user_id))
    /\ UNCHANGED <<users, nextUser, audio, disk, now, areq, lastIssue, ver, dreq>>

GetAudioFile(file_id, user_id) ==
    /\ last' = Last("AudioService.get_audio_file", NoToken, user_id, file_id,
                    NoUpload, NoUpdate, get_audio_file(file_id, user_id))
    /\ UNCHANGED <<users, nextUser, audio, disk, now, areq, lastIssue, ver, dreq>>

(***************************************************************************)
(* AudioService.delete_audio_file.  A call runs its SELECT, then unlinks   *)
(* the file of the row it found, then deletes the row and commits; other   *)
(* calls run between these steps.  dreq holds the calls in progress.       *)
(***************************************************************************)
UnlinkOutcomes == {"ok", "denied"}

IdleDel ==
    [user_id |-> 0, pc |-> "idle", raised |-> FALSE, found |-> FALSE,
     out |-> HTTPError(0, ""), file_id |-> 0, path |-> FilePath(0)]

\* os.unlink raises OSError when the path is not there or may not be removed
UnlinkRaises(path, outcome) == path \notin disk \/ outcome = "denied"

\* lines 96-99: the storage directory after os.unlink(file.file_path)
Unlink(path, outcome) ==
    IF UnlinkRaises(path, outcome) THEN disk ELSE disk \ {path}

\* faulty variant: the row is kept when the unlink has raised
delete_row_unless_raised(f, raised) ==
    IF raised THEN audio ELSE [g \in DOMAIN audio \ {f} |-> audio[g]]

\* lines 101-102: the table after session.delete(file) and the commit; a
\* DELETE that matches no row is not an error
delete_row(f, raised) == [g \in DOMAIN audio \ {f} |-> audio[g]]

\* lines 88-93 and 105: the SELECT by id and owner; without a row the call
\* returns False
DeleteSelect(r, file_id, user_id) ==
    /\ dreq[r].pc \in {"idle", "done"}
    /\ dreq' = [dreq EXCEPT ![r] =
          IF file_id \in DOMAIN audio /\ audio[file_id].user_id = user_id
          THEN [IdleDel EXCEPT !.pc = "selected", !.file_id = file_id,
                               !.user_id = user_id, !.found = TRUE,
                               !.path = audio[file_id].file_path]
          ELSE [IdleDel EXCEPT !.pc = "done", !.file_id = file_id,
                               !.user_id = user_id,
                               !.out = Return(FALSE)]]
    /\ UNCHANGED <<users, nextUser, audio, disk, now, areq, last, lastIssue, ver>>

\* lines 96-99: the unlink, whose OSError is printed and dropped
DeleteUnlink(r, outcome) ==
    /\ dreq[r].pc = "selected"
    /\ disk' = Unlink(dreq[r].path, outcome)
    /\ dreq' = [dreq EXCEPT ![r].pc = "unlinked",
                            ![r].raised = UnlinkRaises(dreq[r].path, outcome)]
    /\ UNCHANGED <<users, nextUser, audio, now, areq, last, lastIssue, ver>>

\* lines 101-103: the row is deleted, the session commits, the call
\* returns True
DeleteCommit(r) ==
    /\ dreq[r].pc = "unlinked"
    /\ audio' = delete_row(dreq[r].file_id, dreq[r].raised)
    /\ dreq' = [dreq EXCEPT ![r].pc = "done", ![r].out = Return(TRUE)]
    /\ UNCHANGED <<users, nextUser, disk, now, areq, last, lastIssue, ver>>

(***************************************************************************)
(* Calls of the two token functions: lastIssue and ver hold the last call  *)
(* of each, with its argument, its instant and how it ended.               *)
(***************************************************************************)
NoIssue == [sub |-> "", out |-> HTTPError(0, ""), at |-> 0]
NoVer == [token |-> NoToken, out |-> HTTPError(0, ""), at |-> 0]

\* create_access_token({"sub": u})
TokIssue(u) ==
    /\ lastIssue' = [sub |-> u,
                     out |-> create_access_token([sub |-> u], now),
                     at |-> now]
    /\ UNCHANGED <<users, nextUser, audio, disk, now, areq, last, ver, dreq>>

\* verify_token(token)
TokVerify(token) ==
    /\ ver' = [token |-> token, out |-> verify_token(token, now), at |-> now]
    /\ UNCHANGED <<users, nextUser, audio, disk, now, areq, last, lastIssue, dreq>>

(***************************************************************************)
(* Initial states.  The service starts with empty tables and an empty      *)
(* storage directory.                                                      *)
(***************************************************************************)
Init ==
    /\ users = <<>>
    /\ nextUser = 0
    /\ audio = <<>>
    /\ disk = {}
    /\ now = 0
    /\ areq = [r \in Requests |-> IdleReq]
    /\ dreq = [r \in Requests |-> IdleDel]
    /\ last = NoLast
    /\ lastIssue = NoIssue
    /\ ver = NoVer

(***************************************************************************)
(* The token functions alone.                                              *)
(***************************************************************************)
NextToken ==
    \/ \E u \in {"1", "2", "3"} : TokIssue(u)
    \/ \E token \in BearerTokens \ {NoToken} : TokVerify(token)
    \/ AdvanceClock(FineInstants)

SpecToken == Init /\ [][NextToken]_vars

\* C3: after create_access_token({sub: U}) the call has returned a token,
\* and verify_token of that token at the same instant returns claims whose
\* sub is U.
C3_RoundTrip ==
    lastIssue # NoIssue
    => /\ lastIssue.out.ok
       /\ verify_token(lastIssue.out.value, lastIssue.at).ok
       /\ verify_token(lastIssue.out.value, lastIssue.at).value.sub
             = lastIssue.sub

\* C4: verify_token of a token whose expiry is in the past ends with 401
\* "Token has expired", whatever the key the token was signed with.
C4_ExpiredWhateverSignature ==
    (ver # NoVer /\ ver.token.claims.exp < ver.at)
    => ver.out = HTTPError(401, "Token has expired")

(***************************************************************************)
(* Calls of authenticate_user in flight together.                          *)
(***************************************************************************)
CompleteProfiles == {Profile(s, s, e, "") : s \in Subjects, e \in Emails}
NamedProfiles == {Profile("42", "42", "a@b.com", "Ann")}
IncompleteProfiles ==
    {Profile("", "", "a@b.com", ""), Profile("42", "42", "", "")}

\* Two callers with provider token "y1" and every pairing of subject id
\* and email, and a request to POST /auth/yandex whose dict the provider
\* lets through, as the clock moves.
RaceQ ==
    {ServiceQ("y1", "ok", p) : p \in CompleteProfiles}
    \cup {TokenQ("ok", "y1", "ok", "ok", Profile("42", "42", "a@b.com", ""))}

NextAuth ==
    \/ \E r \in Requests, q \in RaceQ : AuthBegin(r, q)
    \/ \E r \in Requests : AuthSelect(r)
    \/ \E r \in Requests : AuthCommit(r)
    \/ \E r \in Requests : AuthRefresh(r, {"ok"})
    \/ AdvanceClock(CoarseInstants)

SpecAuth == Init /\ [][NextAuth]_vars

\* The rows of the users table that hold subject id S.
RowsOf(S) == {i \in DOMAIN users : users[i].yandex_id = S}

\* C1: when two calls of authenticate_user that were in flight together
\* presented the same subject id S and no row held S when either ran its
\* SELECT, the table ends with exactly one row for S; each call returned
\* its user or raised 409, not both 409, and both returned only if they
\* updated one and the same row: the call that loses the race gets 409
\* "User already exists with different credentials".
C1_OneRowLoserConflict ==
    \A r1 \in Requests, r2 \in Requests :
        LET a == areq[r1]
            b == areq[r2]
        IN (/\ r1 # r2
            /\ a.pc = "done" /\ b.pc = "done"
            /\ a.asked.via = "service" /\ b.asked.via = "service"
            /\ a.data # NoData /\ b.data # NoData
            /\ a.data.yandex_id = b.data.yandex_id
            /\ r2 \in a.overlap
            /\ a.fresh /\ b.fresh)
           => /\ Cardinality(RowsOf(a.data.yandex_id)) = 1
              /\ \A c \in {a, b} : c.resp.ok \/ c.resp.status = 409
              /\ a.resp.ok \/ b.resp.ok
              /\ (a.loaded = 0 \/ a.loaded # b.loaded)
                    => 409 \in {a.resp.status, b.resp.status}
              /\ \A c \in {a, b} :
                    c.resp.status = 409 =>
                       c.resp.detail =
                          "User already exists with different credentials"

\* C1 witness: while the table held the row of subject "77", two calls for
\* subject "42" both found no row; one returned its user, the other raised
\* 409, and one row holds "42".
C1_Witness ==
    \E r1 \in Requests, r2 \in Requests :
        /\ areq[r1].pc = "done" /\ areq[r2].pc = "done"
        /\ areq[r1].asked.via = "service" /\ areq[r2].asked.via = "service"
        /\ areq[r1].data.yandex_id = "42" /\ areq[r2].data.yandex_id = "42"
        /\ areq[r1].loaded = 0 /\ areq[r2].loaded = 0
        /\ r2 \in areq[r1].overlap
        /\ areq[r1].fresh /\ areq[r2].fresh
        /\ areq[r1].resp = Returned(2)
        /\ areq[r2].resp.status = 409
        /\ Cardinality(RowsOf("42")) = 1
        /\ users[1].yandex_id = "77"

(***************************************************************************)
(* Authentications in flight together when the database may fail to       *)
(* answer the refresh.                                                     *)
(***************************************************************************)
NextFault ==
    \/ \E r \in Requests, q \in RaceQ : AuthBegin(r, q)
    \/ \E r \in Requests : AuthSelect(r)
    \/ \E r \in Requests : AuthCommit(r)
    \/ \E r \in Requests : AuthRefresh(r, RefreshOutcomes)

SpecFault == Init /\ [][NextFault]_vars

\* The call of r ends at its commit.
FailedAtCommit(r) == areq[r].pc = "selected" /\ areq'[r].pc = "done"

\* The call of r ends with an exception raised inside authenticate_user,
\* at its flush or commit or at its refresh.
FailedCall(r) ==
    /\ areq[r].pc \in {"selected", "committed"}
    /\ areq'[r].pc = "done"
    /\ areq'[r].raised # NoResp

\* Call a has committed a write: a new row, or an update that changed a
\* column of the row it loaded.
Wrote(a) == a.pc = "committed" /\ (a.loaded = 0 \/ Dirty(a))

\* What C17 holds of a call that failed: the table holds no write of the
\* call, authenticate_user raises 409 or 500, and that is the status its
\* caller receives.
RolledBack(r) ==
    /\ users' = users
    /\ nextUser' = nextUser
    /\ ~Wrote(areq[r])
    /\ areq'[r].raised.exc = "HTTPException"
    /\ areq'[r].raised.status \in {409, 500}
    /\ areq'[r].raised.status = 409 <=> areq'[r].raised = AuthConflict
    /\ areq'[r].resp.status = areq'[r].raised.status

\* The part of C17 about the flush and the commit: a call that fails there
\* leaves the table and the id counter as they were.
C17_Commit ==
    [][\A r \in Requests : FailedAtCommit(r) => RolledBack(r)]_vars

\* C17: a call of authenticate_user that fails inside authenticate_user,
\* with an integrity violation or with any other exception, leaves the
\* users table as it was before the call, with no row the call created or
\* updated, and raises 409 for the integrity violation and 500 otherwise.
C17_FailureRollsBack ==
    [][\A r \in Requests : FailedCall(r) => RolledBack(r)]_vars

(***************************************************************************)
(* Authentications one after the other: calls of authenticate_user and     *)
(* requests to the two routes, with every answer of the provider, as the   *)
(* clock moves.                                                            *)
(***************************************************************************)
LoginQ ==
    {ServiceQ(y, "ok", p) : y \in YTokens, p \in CompleteProfiles}
    \cup {ServiceQ("y1", "ok", p) : p \in NamedProfiles \cup IncompleteProfiles}
    \cup {ServiceQ("y1", s, Profile("42", "42", "a@b.com", "")) :
             s \in {"http_error", "unreachable"}}
    \cup {TokenQ("invalid", "", "ok", "ok", Profile("42", "42", "a@b.com", "")),
          TokenQ("ok", "", "ok", "ok", Profile("42", "42", "a@b.com", ""))}
    \cup {TokenQ("ok", "y1", s, "ok", Profile("42", "42", "a@b.com", "")) :
             s \in {"http_error", "unreachable"}}
    \cup {TokenQ("ok", "y1", "ok", s, p) :
             s \in {"ok", "http_error"},
             p \in IncompleteProfiles \cup
                   {Profile("42", "42", "a@b.com", "")}}
    \cup {CallbackQ(TRUE, "c1", "", p) :
             p \in IncompleteProfiles \cup
                   {Profile("42", "42", "a@b.com", "")}}
    \cup {CallbackQ(h, "", e, Profile("42", "42", "a@b.com", "")) :
             h \in BOOLEAN, e \in {"", "access_denied"}}

NextLogin ==
    \/ \E q \in LoginQ : AuthBegin("r1", q)
    \/ AuthSelect("r1")
    \/ AuthCommit("r1")
    \/ AuthRefresh("r1", {"ok"})
    \/ AdvanceClock(CoarseInstants)

SpecLogin == Init /\ [][NextLogin]_vars

\* The request of r1 has just been answered.
Answered == areq'["r1"] # areq["r1"] /\ areq'["r1"].pc = "done"

\* The request was well formed and the provider gave the profile of the
\* token or of the code.
WellFormed(q) ==
    \/ q.via = "token" /\ q.body = "ok" /\ q.ytoken # "" /\ q.provider = "ok"
    \/ q.via = "callback" /\ q.has_code /\ q.code # "" /\ q.error = ""

\* C7 case: a request to POST /auth/yandex with the token of an account
\* has been answered, and no row but the one the answer names holds the
\* subject id or the email of the account.
C7_Case ==
    /\ Answered
    /\ areq'["r1"].asked.via = "token"
    /\ WellFormed(areq'["r1"].asked)
    /\ ProfileComplete(areq'["r1"].asked.profile)
    /\ areq'["r1"].asked.profile.id # ""
    /\ \A i \in DOMAIN users' \ {areq'["r1"].resp.user_id} :
          /\ users'[i].yandex_id # areq'["r1"].asked.profile.user_id
          /\ users'[i].email # areq'["r1"].asked.profile.default_email

\* The answer is a success that names a row with the values of the account
\* and the default flags.
C7_Created ==
    LET a == areq'["r1"]
        uid == a.resp.user_id
    IN /\ a.resp.ok
       /\ uid \in DOMAIN users'
       /\ users'[uid].yandex_id = a.asked.profile.user_id
       /\ users'[uid].email = a.asked.profile.default_email
       /\ users'[uid].is_active
       /\ ~users'[uid].is_superuser
       /\ users'[uid].refresh_token = ""

\* C7: an authentication on POST /auth/yandex with subject id S and email
\* E, when no row holds S or E, succeeds for the user of a new row with
\* yandex_id S, email E, is_active true, is_superuser false and an empty
\* refresh token (the bearer token of the answer carries that row's id).
C7_NewUser ==
    [][C7_Case => C7_Created]_vars

\* C8 case: r1 called authenticate_user with a provider token, its SELECT
\* has run and it now commits, while row i holds its subject id and no
\* other row holds the email it presents.
C8_Case(i) ==
    /\ areq["r1"].pc = "selected" /\ areq'["r1"].pc # "selected"
    /\ areq["r1"].asked.via = "service"
    /\ users[i].yandex_id = areq["r1"].data.yandex_id
    /\ \A j \in DOMAIN users \ {i} : users[j].email # areq["r1"].data.email

C8_Reused(i) ==
    /\ areq'["r1"].pc = "committed"
    /\ areq'["r1"].uid = i
    /\ DOMAIN users' = DOMAIN users
    /\ nextUser' = nextUser
    /\ users'[i].access_token = areq["r1"].data.access_token
    /\ users'[i].token_expires = areq["r1"].data.token_expires
    /\ users'[i].yandex_id = users[i].yandex_id
    /\ users'[i].email = users[i].email
    /\ \A j \in DOMAIN users \ {i} : users'[j] = users[j]

\* The call of r1 returns after its refresh: the user of the committed row.
C8_Return ==
    (areq["r1"].pc = "committed" /\ areq'["r1"].pc = "done")
    => /\ areq'["r1"].resp = Returned(areq["r1"].uid)
       /\ users' = users

\* C8: a call of authenticate_user with subject id S, when row i holds S
\* and no other row holds the email presented, commits on row i: the row's
\* access_token and token_expires are the new values, its id, subject id
\* and email are kept, no row is added and no other row changes; the call
\* returns user i.
C8_SameRowReused ==
    [][(\A i \in DOMAIN users : C8_Case(i) => C8_Reused(i)) /\ C8_Return]_vars

\* C8 witness: a user authenticated again, after the clock had moved, with
\* provider token "y2"; the call found the user's row, returned it, and the
\* row holds "y2" and the later expiry.
C8_Witness ==
    /\ areq["r1"].pc = "done"
    /\ areq["r1"].asked.via = "service"
    /\ areq["r1"].loaded # 0
    /\ areq["r1"].resp.ok
    /\ areq["r1"].resp.user_id = areq["r1"].loaded
    /\ areq["r1"].data.token_expires > TokenExpires(0)
    /\ areq["r1"].data.access_token = "y2"
    /\ now > 0
    /\ users[areq["r1"].loaded].access_token = "y2"
    /\ users[areq["r1"].loaded].token_expires = areq["r1"].data.token_expires

\* The two errors that name the provider's data as the fault.
InvalidUpstream ==
    {Failure(HTTPError(401, "Invalid user data from Yandex")),
     Failure(HTTPError(400, "Incomplete Yandex user data"))}

C14_Case ==
    /\ Answered
    /\ WellFormed(areq'["r1"].asked)
    /\ \/ areq'["r1"].asked.profile.id = ""
       \/ areq'["r1"].asked.profile.default_email = ""

\* C14: a well-formed request on either entry (POST /auth/yandex, the
\* callback) whose provider profile lacks the subject id or the email is
\* answered with one of the invalid-upstream-data errors and writes no row.
C14_IncompleteProfileRefused ==
    [][C14_Case => (areq'["r1"].resp \in InvalidUpstream /\ users' = users)]_vars

(***************************************************************************)
(* Authentications in flight together with requests to PUT /users/me and   *)
(* DELETE /users/{id}.                                                     *)
(***************************************************************************)
MixQ == {q \in RaceQ : q.via = "service"}

\* A bearer token with the key of the service for the user of id i.
TokenFor(i) ==
    [claims |-> [sub |-> IdStr(i), exp |-> access_token_expire_minutes],
     key |-> secret_key, alg |-> algorithm]

MixUpdates ==
    {[email |-> e, is_active |-> "unset", is_superuser |-> s] :
        e \in Emails, s \in {"unset"}}

NextMix ==
    \/ \E r \in Requests, q \in MixQ : AuthBegin(r, q)
    \/ \E r \in Requests : AuthSelect(r)
    \/ \E r \in Requests : AuthCommit(r)
    \/ \E r \in Requests : AuthRefresh(r, {"ok"})
    \/ \E i \in 1..MaxUsers, upd \in MixUpdates : UpdateUserMe(TokenFor(i), upd)
    \/ \E i \in 1..MaxUsers, uid \in 1..MaxUsers : DeleteUser(TokenFor(i), uid)

SpecMix == Init /\ [][NextMix]_vars

\* C15: no two rows of the users table share a yandex_id, and no two share
\* an email.
C15_UsersUnique ==
    \A i \in DOMAIN users, j \in DOMAIN users :
        i # j => /\ users[i].yandex_id # users[j].yandex_id
                 /\ users[i].email # users[j].email

\* C15 witness: the table holds two rows, a call that would have given a
\* second row the subject id or the email of the first has raised 409, and
\* a PUT /users/me that asked for the other user's email has been answered.
C15_Witness ==
    /\ Cardinality(DOMAIN users) = 2
    /\ \E r \in Requests :
          areq[r].pc = "done" /\ areq[r].resp = AuthConflict
    /\ last.op = "update_user_me"
    /\ \E i \in DOMAIN users :
          /\ last.token = TokenFor(i)
          /\ \E j \in DOMAIN users \ {i} : users[j].email = last.update.email

(***************************************************************************)
(* Requests to the guarded routes by the users of two accounts and by      *)
(* strangers, as the clock moves.                                          *)
(***************************************************************************)
MainQ ==
    {ServiceQ("y1", "ok", Profile("42", "42", "a@b.com", "")),
     ServiceQ("y1", "ok", Profile("77", "77", "c@d.org", ""))}

Updates ==
    {[email |-> e, is_active |-> a, is_superuser |-> s] :
        e \in {"", "a@b.com"}, a \in {"unset", "false"},
        s \in {"unset", "true"}}

NextUsers ==
    \/ \E q \in MainQ : AuthBegin("r1", q)
    \/ AuthSelect("r1")
    \/ AuthCommit("r1")
    \/ AuthRefresh("r1", {"ok"})
    \/ \E token \in BearerTokens : ReadUserMe(token)
    \/ \E token \in BearerTokens, upd \in Updates : UpdateUserMe(token, upd)
    \/ \E token \in BearerTokens : ReadUsers(token)
    \/ \E token \in BearerTokens, uid \in 1..MaxUsers : DeleteUser(token, uid)
    \/ \E token \in BearerTokens, up \in Uploads : UploadAudioFile(token, up)
    \/ \E token \in BearerTokens : GetMyAudioFiles(token)
    \/ \E token \in BearerTokens, f \in Files : DownloadAudioFile(token, f)
    \/ \E token \in BearerTokens, f \in Files : DeleteAudioFile(token, f)
    \/ AdvanceClock(CoarseInstants)

SpecUsers == Init /\ [][NextUsers]_vars

\* The caller a bearer token stands for at instant t in table tbl: the id
\* of the row its sub names when the token carries the key and the
\* algorithm of the service and has not expired, 0 otherwise.
CallerOf(token, tbl, t) ==
    IF /\ token.key = secret_key
       /\ token.alg = algorithm
       /\ token.claims.exp >= t
       /\ \E i \in DOMAIN tbl : IdStr(i) = token.claims.sub
    THEN CHOOSE i \in DOMAIN tbl : IdStr(i) = token.claims.sub
    ELSE 0

\* The token verifies and its subject is an active user.
Authentic(token) ==
    /\ CallerOf(token, users, now) # 0
    /\ users[CallerOf(token, users, now)].is_active

GuardedOps ==
    {"read_user_me", "update_user_me", "read_users", "delete_user",
     "upload_audio_file", "get_my_audio_files", "download_audio_file",
     "delete_audio_file"}

AdminOps == {"read_users", "delete_user"}

\* A request to route op has just been answered.
Requested(op) == last' # last /\ last'.op = op

\* C10: a request to a guarded route whose token is missing, does not
\* verify, has expired, or names no active user is answered 401 and
\* changes neither table nor the storage directory.
C10_GuardRequiresActiveUser ==
    [][\A op \in GuardedOps :
         (Requested(op) /\ ~Authentic(last'.token))
         => (last'.out.status = 401 /\ UNCHANGED <<users, audio, disk>>)]_vars

\* C11: a request to an administrative route by a caller whose token
\* verifies and whose is_superuser flag is false is answered 403, and no
\* row is deleted.
C11_AdminOnlySuperuser ==
    [][\A op \in AdminOps :
         (/\ Requested(op)
          /\ Authentic(last'.token)
          /\ ~users[CallerOf(last'.token, users, now)].is_superuser)
         => (last'.out.status = 403 /\ users' = users)]_vars

\* A user who is not a superuser stays so.
StaysOrdinary(i) ==
    (~users[i].is_superuser /\ i \in DOMAIN users') => ~users'[i].is_superuser

\* The administrative routes refuse the user with 403.
StillRefused(i) ==
    \A op \in AdminOps :
        (/\ Requested(op)
         /\ last'.token = TokenFor(i)
         /\ Authentic(last'.token)
         /\ ~users[i].is_superuser)
        => last'.out.status = 403

\* C20: whatever a user whose is_superuser flag is false asks for, the flag
\* of the user's row stays false and the administrative routes go on
\* answering the user 403.
C20_NoSelfEscalation ==
    [][\A i \in DOMAIN users : StaysOrdinary(i) /\ StillRefused(i)]_vars

(***************************************************************************)
(* The AudioService functions and the audio routes over the tables and     *)
(* the storage directory they find.  save_audio_file stores nothing, so    *)
(* the rows and files that get_user_audio_files, get_audio_file and        *)
(* delete_audio_file meet are input of these functions: any table of at    *)
(* most MaxFiles rows owned by the two users, each file there or missing.  *)
(***************************************************************************)
TwoUsers ==
    [i \in 1..2 |->
        IF i = 1
        THEN NewUser(UserData(Profile("42", "42", "a@b.com", ""), "y1", 0))
        ELSE NewUser(UserData(Profile("77", "77", "c@d.org", ""), "y1", 0))]

AudioTables ==
    UNION {[S -> 1..2] : S \in SUBSET Files}

InitAudio ==
    /\ users = TwoUsers
    /\ nextUser = 2
    /\ \E own \in AudioTables :
          audio = [f \in DOMAIN own |-> AudioRow(own[f], f)]
    /\ disk \in SUBSET {FilePath(f) : f \in Files}
    /\ disk \subseteq {audio[f].file_path : f \in DOMAIN audio}
    /\ now = 0
    /\ areq = [r \in Requests |-> IdleReq]
    /\ dreq = [r \in Requests |-> IdleDel]
    /\ last = NoLast
    /\ lastIssue = NoIssue
    /\ ver = NoVer

AudioTokens == {NoToken, TokenFor(1), TokenFor(2)}

NextAudio ==
    \/ \E token \in AudioTokens, up \in Uploads : UploadAudioFile(token, up)
    \/ \E token \in AudioTokens : GetMyAudioFiles(token)
    \/ \E token \in AudioTokens, f \in Files : DownloadAudioFile(token, f)
    \/ \E token \in AudioTokens, f \in Files : DeleteAudioFile(token, f)
    \/ \E u \in 1..2, up \in Uploads : SaveAudioFile(u, up)
    \/ \E u \in 1..2 : GetUserAudioFiles(u)
    \/ \E u \in 1..2, f \in Files : GetAudioFile(f, u)
    \/ \E r \in Requests, u \in 1..2, f \in Files : DeleteSelect(r, f, u)
    \/ \E r \in Requests, o \in UnlinkOutcomes : DeleteUnlink(r, o)
    \/ \E r \in Requests : DeleteCommit(r)

SpecAudio == InitAudio /\ [][NextAudio]_vars

\* File f is not a file of user u: no row has the id, or its row is owned
\* by another user.
NotOwned(f, u) == f \notin DOMAIN audio \/ audio[f].user_id # u

\* get_audio_file of a file that is not the caller's returns None.
C2_Fetch ==
    (Requested("AudioService.get_audio_file")
     /\ NotOwned(last'.target, last'.user_id))
    => last'.out = Return(0)

\* The download route answers the same of such a file: 404.
C2_Download ==
    (/\ Requested("download_audio_file")
     /\ Authentic(last'.token)
     /\ NotOwned(last'.target, CallerOf(last'.token, users, now)))
    => /\ last'.out.status = 404
       /\ last'.out.detail = "Audio file not found"

\* C2: for a file id that no row has and for one whose row is owned by
\* another user alike, get_audio_file returns None and the download route
\* answers the caller 404 "Audio file not found".
C2_Indistinguishable ==
    [][C2_Fetch /\ C2_Download]_vars

\* C5: an upload by an authenticated user whose size is above
\* max_file_size is answered 413, and no file and no row is stored.
C5_Oversize413 ==
    [][(/\ Requested("upload_audio_file")
        /\ Authentic(last'.token)
        /\ last'.upload.size > max_file_size)
       => (last'.out.status = 413 /\ UNCHANGED <<audio, disk>>)]_vars

\* delete_audio_file of r returns True.
DeleteSucceeds(r) ==
    dreq[r].pc = "unlinked" /\ dreq'[r].pc = "done" /\ dreq'[r].out = Return(TRUE)

\* Some call of delete_audio_file for file f of user u has returned True.
WasDeleted(f, u) ==
    \E r \in Requests :
        /\ dreq[r].pc = "done" /\ dreq[r].out = Return(TRUE)
        /\ dreq[r].file_id = f /\ dreq[r].user_id = u

\* When the delete returns True the row and the file are gone.
C6_Gone ==
    \A r \in Requests :
        DeleteSucceeds(r)
        => /\ dreq[r].file_id \notin DOMAIN audio'
           /\ dreq[r].path \notin disk'

\* A later download of the file by its owner is answered 404.
C6_ThenNotFound ==
    (/\ Requested("download_audio_file")
     /\ Authentic(last'.token)
     /\ WasDeleted(last'.target, CallerOf(last'.token, users, now)))
    => last'.out.status = 404

\* C6: after delete_audio_file has returned True for a file of the caller,
\* the row is gone and the file is gone from the storage directory, and a
\* download of the file by the same owner is answered 404.
C6_RowAndFileGone ==
    [][C6_Gone /\ C6_ThenNotFound]_vars

\* The upload is one the configuration admits.
Admitted(up) ==
    up.content_type \in allowed_types /\ up.size <= max_file_size

\* C9: an upload by an authenticated user with an allowed content type and
\* a size not above the maximum is answered 201 and stores a row owned by
\* the caller; a list request of an authenticated user is answered with
\* the rows whose user_id is the caller's.
C9_UploadThenList ==
    [][/\ (/\ Requested("upload_audio_file")
           /\ Authentic(last'.token)
           /\ Admitted(last'.upload))
          => /\ last'.out.status = 201
             /\ \E f \in DOMAIN audio' \ DOMAIN audio :
                   audio'[f].user_id = CallerOf(last'.token, users, now)
       /\ (Requested("get_my_audio_files") /\ Authentic(last'.token))
          => last'.out =
                Return({f \in DOMAIN audio :
                          audio[f].user_id = CallerOf(last'.token, users, now)})
      ]_vars

\* C12: a download by the owner of a row whose file is missing from the
\* storage directory is answered 410.
C12_GoneNotNotFound ==
    [][(/\ Requested("download_audio_file")
        /\ Authentic(last'.token)
        /\ ~NotOwned(last'.target, CallerOf(last'.token, users, now))
        /\ audio[last'.target].file_path \notin disk)
       => last'.out.status = 410]_vars

\* C13: an upload by an authenticated user whose content type is not
\* allowed is answered 400, and no file and no row is stored.
C13_BadTypeRejected ==
    [][(/\ Requested("upload_audio_file")
        /\ Authentic(last'.token)
        /\ last'.upload.content_type \notin allowed_types)
       => (last'.out.status = 400 /\ UNCHANGED <<audio, disk>>)]_vars

\* delete_audio_file of a file that is not the caller's returns False at
\* its SELECT and changes nothing.
C18_Service ==
    \A r \in Requests :
        (/\ dreq'[r] # dreq[r]
         /\ dreq[r].pc \in {"idle", "done"}
         /\ NotOwned(dreq'[r].file_id, dreq'[r].user_id))
        => /\ dreq'[r].pc = "done"
           /\ dreq'[r].out = Return(FALSE)
           /\ UNCHANGED <<audio, disk>>

\* The delete route answers 404 for such a file and changes nothing.
C18_Route ==
    (/\ Requested("delete_audio_file")
     /\ Authentic(last'.token)
     /\ NotOwned(last'.target, CallerOf(last'.token, users, now)))
    => (last'.out.status = 404 /\ UNCHANGED <<audio, disk>>)

\* C18: a delete of a file id that no row has or whose row is owned by
\* another user returns False, is answered 404 by the route, and leaves
\* every row and every file as it was.
C18_ForeignDeleteChangesNothing ==
    [][C18_Service /\ C18_Route]_vars

\* The unlink comes before the row delete: while a call waits between its
\* SELECT and its unlink it has not touched the table, and the step of the
\* unlink leaves the table alone.
C19_UnlinkFirst ==
    \A r \in Requests :
        (dreq[r].pc = "selected" /\ dreq'[r].pc = "unlinked")
        => audio' = audio

\* After the unlink, raised or not, the row is deleted, and the call
\* returns True.
C19_ThenRow ==
    \A r \in Requests :
        (dreq[r].pc = "unlinked" /\ dreq'[r] # dreq[r])
        => /\ dreq[r].file_id \notin DOMAIN audio'
           /\ \A g \in DOMAIN audio \ {dreq[r].file_id} :
                 g \in DOMAIN audio' /\ audio'[g] = audio[g]
           /\ dreq'[r].pc = "done"
           /\ dreq'[r].out = Return(TRUE)
           /\ dreq'[r].raised = dreq[r].raised

\* C19: in delete_audio_file of an owned file the unlink is attempted
\* before the row is deleted, and an unlink that raises OSError does not
\* keep the row: the row is removed and the call returns True.
C19_UnlinkFailureDoesNotBlock ==
    [][C19_UnlinkFirst /\ C19_ThenRow]_vars

\* C19 witness: a call whose unlink raised, the file still in the storage
\* directory, has returned True, and the row is gone.
C19_Witness ==
    \E r \in Requests :
        /\ dreq[r].pc = "done"
        /\ dreq[r].found
        /\ dreq[r].raised
        /\ dreq[r].out = Return(TRUE)
        /\ dreq[r].file_id \notin DOMAIN audio
        /\ dreq[r].path \in disk

====
